---- MODULE Spec2Model ----
(***************************************************************************)
(* Screening and position sizing of the toushi stock bot.                  *)
(*                                                                         *)
(* screener.screen_all_stocks is modelled as a state machine: one action   *)
(* per path through the body of its watchlist loop, one for the ranking    *)
(* and return.  screener.determine_buy_method is a pure function, modelled *)
(* as an operator and exercised on its own by the specification SizeSpec.  *)
(* analyzer.analyze_stock is modelled bar by bar and exercised by          *)
(* AnalyzeSpec; the screening run takes its outcome from the frame.        *)
(* portfolio.record_buy and record_sell act on the stored portfolio file   *)
(* in LedgerSpec.                                                          *)
(*                                                                         *)
(* Numbers.  Prices and cash are whole yen; a stored average cost and the  *)
(* realized P&L are in tenths of a yen.  A composite score is held in      *)
(* units of 1e-4 (the code rounds it to 4 decimals), so 0.8 is 8000.       *)
(* Percent comparisons are cross-multiplied so that they stay exact in     *)
(* integers: (p / a - 1) * 100 >= k  is  (p - a) * 100 >= k * a  for a > 0.*)
(***************************************************************************)
EXTENDS Integers, Sequences, FiniteSets, TLC

VARIABLES
    WATCHLIST,        \* config.WATCHLIST: the tickers, in dict insertion order
    portfolio,        \* the stored portfolio file: whether it exists, current_cash,
                      \* holdings, trades, total_realized_pnl
    all_stock_data,   \* what fetch_daily_data_batch returns for this run
    pc,               \* position in screen_all_stocks / determine_buy_method
    holdings,         \* screen_all_stocks: snapshot of portfolio holdings
    available_cash,   \* screen_all_stocks: snapshot of portfolio cash
    i,                \* screen_all_stocks: index of the next watchlist entry
    all_candidates,   \* screen_all_stocks: list of buy candidates
    holdings_alerts,  \* screen_all_stocks: list of alerts on held tickers
    all_results,      \* screen_all_stocks: ticker -> analysis result
    top_candidates,   \* screen_all_stocks: returned candidate list
    summary,          \* screen_all_stocks: returned summary of counts
    nodata_run,       \* the same run with no data for every ticker that raised
    price,            \* determine_buy_method: argument price
    cash,             \* determine_buy_method: argument available_cash
    buy_info,         \* determine_buy_method: returned dict
    ohlcv,            \* analyze_stock: argument df, the bars of one ticker
    analysis,         \* analyze_stock: returned dict
    trade_result,     \* the last record_buy / record_sell call and what it returned
    recorders,        \* processes inside record_buy / record_sell: what each loaded
    chat              \* process_discord_chat_trades: fetched trades, processed ids

vars == <<WATCHLIST, portfolio, all_stock_data, pc, holdings, available_cash, i,
          all_candidates, holdings_alerts, all_results, top_candidates, summary,
          nodata_run, price, cash, buy_info, ohlcv, analysis,
          trade_result, recorders, chat>>

screenVars == <<WATCHLIST, portfolio, all_stock_data, holdings, available_cash, i,
                all_candidates, holdings_alerts, all_results, top_candidates,
                summary, nodata_run>>

sizeVars == <<price, cash, buy_info>>

analysisVars == <<ohlcv, analysis>>

ledgerVars == <<trade_result, recorders, chat>>

(***************************************************************************)
(* Bounds of the model.                                                    *)
(***************************************************************************)
\* length of the watchlist in the runs that vary every input of a ticker
NumTickers == 3
\* length of the watchlist in the runs with more qualifying tickers than the
\* candidate list holds
WideTickers == 11
\* largest price and cash handed to determine_buy_method in SizeSpec
MaxPrice == 6
MaxCash == 1300
\* bars of a long frame, the close the bars start from, and how many
\* two-yen steps above or below it a later bar closes
LongBars == 30
BasePrice == 100
MaxMove == 2
\* calls recorded in the trade list of one ledger
MaxTrades == 3

\* successful calls in a sequence that opens and closes positions
MaxOpened == 4

\* trade messages in the Discord channel within the last ten minutes
MaxMessages == 3

\* runs of process_discord_chat_trades that fetch these messages
MaxRuns == 2

(***************************************************************************)
(* Program constants.                                                      *)
(***************************************************************************)
INITIAL_CAPITAL == 220000
take_profit_pct == 5
stop_loss_pct == 3
max_per_stock_pct == 40

max_positions == 3
\* all_candidates[:10]
TopN == 10
\* len(df) < 5
MinBars == 5
\* shares of one trading unit: unit_cost = price * 100
UnitShares == 100
\* buy_threshold 0.60 and sell_threshold -0.60 in units of 1e-4
buy_threshold == 6000
sell_threshold == -6000

\* an average cost is stored rounded to one decimal: avg_price is in
\* tenths of a yen
TenthsPerYen == 10

\* ANALYSIS_PARAMS
sma_short == 5
sma_medium == 25
rsi_period == 14
rsi_oversold == 30
rsi_overbought == 70
bb_period == 20
bb_std == 2
volume_avg_period == 20
volume_spike_multiplier == 2
price_change_threshold == 3

\* SIGNAL_PARAMS weights, in hundredths
weight_ma_cross == 20
weight_rsi == 20
weight_macd == 20
weight_bb == 15
weight_volume == 15
weight_price_momentum == 10

Max(a, b) == IF a >= b THEN a ELSE b

Range(s) == {s[k] : k \in 1..Len(s)}

\* s[:n]
Take(s, n) == SubSeq(s, 1, IF Len(s) < n THEN Len(s) ELSE n)

(***************************************************************************)
(* analyzer.analyze_stock, as far as the screener depends on it.           *)
(*                                                                         *)
(* A data frame df is a record: present (FALSE is the None that dict.get   *)
(* returns for a ticker the fetcher has no data for), wellformed (FALSE is *)
(* a frame whose columns make the indicator code raise, e.g. no Close      *)
(* column), bars (the number of rows), close (the last close) and score    *)
(* (the weighted sum of the six signals of the series, in units of 1e-4).  *)
(* The frames come from data_fetcher.fetch_daily_data_batch, which the     *)
(* screener imports but whose body is not among the sources: the batch is  *)
(* taken as the data collaborator's interface, per ticker a frame or       *)
(* nothing.                                                                *)
(***************************************************************************)
Aspects == {"ma_cross", "rsi", "macd", "bb", "volume", "price_momentum"}

\* if score >= buy_threshold ... elif score <= sell_threshold ... else
Classify(score) ==
    IF score >= buy_threshold THEN "BUY"
    ELSE IF score <= sell_threshold THEN "SELL"
    ELSE "HOLD"

\* slip: a lower minimum length
TooShortThree(df) == ~df.present \/ df.bars = 0 \/ df.bars < 3

\* if df is None or df.empty or len(df) < 5
TooShort(df) == ~df.present \/ df.bars = 0 \/ df.bars < MinBars

\* status "error" is the returned {"error": ...}, "raise" an exception that
\* leaves analyze_stock, "ok" a returned analysis result.  The frame of a
\* screening run carries the score analyze_stock reports for it; the
\* scores used lie away from the thresholds, where the action of the
\* rounded and of the unrounded score agree (analyze_bars keeps both).
analyze_stock(df) ==
    IF TooShort(df)
    THEN [status |-> "error", current_price |-> 0, score |-> 0,
          action |-> "NONE", signals |-> {}]
    ELSE IF ~df.wellformed
    THEN [status |-> "raise", current_price |-> 0, score |-> 0,
          action |-> "NONE", signals |-> {}]
    ELSE [status |-> "ok", current_price |-> df.close, score |-> df.score,
          action |-> Classify(df.score), signals |-> Aspects]

(***************************************************************************)
(* analyzer.py on the bars themselves.  A data frame is a record           *)
(*   close, volume : the columns, one whole-yen close and one volume per    *)
(*                   bar, oldest first;                                     *)
(*   rsi           : the value of the RSI formula on the last bar when      *)
(*                   both smoothed averages are positive;                   *)
(*   hist          : the last two values of the MACD histogram when the     *)
(*                   closes are not all equal, as a pair of signed levels.  *)
(* Rolling means and deviations are compared exactly, by cross             *)
(* multiplication.  The exponential averages of a changing series are not  *)
(* computable in bounded integers, so the frame carries their outcome and  *)
(* every outcome is drawn; on a constant series they are computed.         *)
(* A signal is a rational num / den.                                       *)
(***************************************************************************)
Sig(num, den) == [num |-> num, den |-> den]

Tenths(n) == Sig(n, 10)

RECURSIVE SumSeq(_)
SumSeq(s) == IF s = <<>> THEN 0 ELSE Head(s) + SumSeq(Tail(s))

SumSquares(s) == SumSeq([k \in DOMAIN s |-> s[k] * s[k]])

\* series.rolling(window=period, min_periods=1) at bar `at`
Rolling(series, period, at) == SubSeq(series, Max(1, at - period + 1), at)

\* calculate_sma at bar `at`: the mean sum / n of the window
calculate_sma(series, period, at) ==
    [sum |-> SumSeq(Rolling(series, period, at)),
     n   |-> Len(Rolling(series, period, at))]

MeanLess(a, b) == a.sum * b.n < b.sum * a.n

MeanLessEq(a, b) == a.sum * b.n <= b.sum * a.n

\* slip: the golden cross asks for a short average strictly below before
MaCrossSignalStrictBefore(close) ==
    LET n           == Len(close)
        prev_short  == calculate_sma(close, sma_short, n - 1)
        prev_medium == calculate_sma(close, sma_medium, n - 1)
        curr_short  == calculate_sma(close, sma_short, n)
        curr_medium == calculate_sma(close, sma_medium, n)
    IN  IF MeanLess(prev_short, prev_medium) /\ MeanLess(curr_medium, curr_short)
        THEN Tenths(10)
        ELSE IF MeanLessEq(prev_medium, prev_short) /\ MeanLess(curr_short, curr_medium)
        THEN Tenths(-10)
        ELSE IF MeanLess(curr_medium, curr_short)
        THEN Tenths(5)
        ELSE Tenths(-5)

\* the golden cross / dead cross rule
MaCrossSignal(close) ==
    LET n           == Len(close)
        prev_short  == calculate_sma(close, sma_short, n - 1)
        prev_medium == calculate_sma(close, sma_medium, n - 1)
        curr_short  == calculate_sma(close, sma_short, n)
        curr_medium == calculate_sma(close, sma_medium, n)
    IN  IF MeanLessEq(prev_short, prev_medium) /\ MeanLess(curr_medium, curr_short)
        THEN Tenths(10)
        ELSE IF MeanLessEq(prev_medium, prev_short) /\ MeanLess(curr_short, curr_medium)
        THEN Tenths(-10)
        ELSE IF MeanLess(curr_medium, curr_short)
        THEN Tenths(5)
        ELSE Tenths(-5)

\* some bar closes above (below) the bar before it: the gain (loss) series
\* is not all zero, and neither is its exponential average
AnyGain(close) == \E k \in 2..Len(close) : close[k] > close[k - 1]

AnyLoss(close) == \E k \in 2..Len(close) : close[k] < close[k - 1]

Constant(close) == ~AnyGain(close) /\ ~AnyLoss(close)

\* the float that is not a number: every comparison with it is false
NaN == -1

\* calculate_rsi on the last bar: undefined before rsi_period bars
\* (min_periods); rs = avg_gain / avg_loss is 0 / 0 = NaN on a constant
\* series, x / 0 = inf when only the loss average is zero
calculate_rsi(frame) ==
    IF Len(frame.close) < rsi_period THEN NaN
    ELSE IF Constant(frame.close) THEN NaN
    ELSE IF ~AnyLoss(frame.close) THEN 100
    ELSE IF ~AnyGain(frame.close) THEN 0
    ELSE frame.rsi

RsiSignal(current_rsi) ==
    IF current_rsi = NaN THEN Tenths(0)
    ELSE IF current_rsi <= rsi_oversold THEN Tenths(10)
    ELSE IF current_rsi >= rsi_overbought THEN Tenths(-10)
    ELSE IF current_rsi <= 40 THEN Tenths(5)
    ELSE IF current_rsi >= 60 THEN Tenths(-5)
    ELSE Tenths(0)

\* calculate_macd: the last two histogram values.  The exponential average
\* of a constant series is the constant, so the histogram is 0.
calculate_macd(frame) ==
    IF Constant(frame.close) THEN <<0, 0>> ELSE frame.hist

\* slip: a positive histogram always reads as a full buy signal
MacdSignalPositiveFull(histogram) ==
    LET prev_hist == histogram[1]
        curr_hist == histogram[2]
    IN  IF curr_hist > 0 THEN Tenths(20)
        ELSE IF prev_hist >= 0 /\ curr_hist < 0 THEN Tenths(-10)
        ELSE IF curr_hist < 0 /\ curr_hist < prev_hist THEN Tenths(-5)
        ELSE Tenths(0)

MacdSignal(histogram) ==
    LET prev_hist == histogram[1]
        curr_hist == histogram[2]
    IN  IF prev_hist <= 0 /\ curr_hist > 0 THEN Tenths(10)
        ELSE IF prev_hist >= 0 /\ curr_hist < 0 THEN Tenths(-10)
        ELSE IF curr_hist > 0 /\ curr_hist > prev_hist THEN Tenths(5)
        ELSE IF curr_hist < 0 /\ curr_hist < prev_hist THEN Tenths(-5)
        ELSE Tenths(0)

\* calculate_bollinger_bands on the last bar, over the window w of n bars
\* with sum S and sum of squares Q: middle = S / n and
\* rolling_std^2 = (n Q - S^2) / (n (n - 1)).  With dev = n price - S,
\* price <= lower  iff  dev <= 0 and dev^2 (n - 1) >= bb_std^2 n (n Q - S^2).
BbSignal(close) ==
    LET w     == Rolling(close, bb_period, Len(close))
        n     == Len(w)
        dev   == n * close[Len(close)] - SumSeq(w)
        spread == bb_std * bb_std * n * (n * SumSquares(w) - SumSeq(w) * SumSeq(w))
    IN  IF dev <= 0 /\ dev * dev * (n - 1) >= spread THEN Tenths(10)
        ELSE IF dev >= 0 /\ dev * dev * (n - 1) >= spread THEN Tenths(-10)
        ELSE IF dev < 0 THEN Tenths(3)
        ELSE Tenths(-3)

\* slip: a volume of exactly the multiple is not a spike
VolumeSignalStrictSpike(close, volume) ==
    LET w           == Rolling(volume, volume_avg_period, Len(volume))
        current_vol == volume[Len(volume)]
        spike       == IF SumSeq(w) > 0
                       THEN current_vol * Len(w) > volume_spike_multiplier * SumSeq(w)
                       ELSE FALSE
    IN  IF ~spike THEN Tenths(0)
        ELSE IF close[Len(close)] > close[Len(close) - 1] THEN Tenths(8)
        ELSE Tenths(-8)

\* the volume rule: vol_ratio = current / average (1.0 when the average is
\* 0) against volume_spike_multiplier, signed by the last price change
VolumeSignal(close, volume) ==
    LET w           == Rolling(volume, volume_avg_period, Len(volume))
        current_vol == volume[Len(volume)]
        spike       == IF SumSeq(w) > 0
                       THEN current_vol * Len(w) >= volume_spike_multiplier * SumSeq(w)
                       ELSE FALSE
    IN  IF ~spike THEN Tenths(0)
        ELSE IF close[Len(close)] > close[Len(close) - 1] THEN Tenths(8)
        ELSE Tenths(-8)

\* slip: no saturation
MomentumSignalLinear(close) ==
    LET previous == close[Len(close) - 1]
        change   == close[Len(close)] - previous
    IN  Sig(50 * change, price_change_threshold * previous)

\* the momentum rule on price_change_pct = 100 (current - previous) / previous:
\* +-0.7 from price_change_threshold on, else pct / threshold * 0.5
MomentumSignal(close) ==
    LET previous == close[Len(close) - 1]
        change   == close[Len(close)] - previous
    IN  IF 100 * change >= price_change_threshold * previous THEN Tenths(7)
        ELSE IF 100 * change <= -price_change_threshold * previous THEN Tenths(-7)
        ELSE Sig(50 * change, price_change_threshold * previous)

\* the weights of SIGNAL_PARAMS, in hundredths
Weight ==
    [ma_cross |-> weight_ma_cross, rsi |-> weight_rsi, macd |-> weight_macd,
     bb |-> weight_bb, volume |-> weight_volume,
     price_momentum |-> weight_price_momentum]

\* slip: the momentum signal enters the score unweighted
CompositeScoreMomentumUnweighted(signals) ==
    LET den == signals["price_momentum"].den
        discrete == Aspects \ {"price_momentum"}
        F[S \in SUBSET discrete] ==
            IF S = {} THEN 0
            ELSE LET a == CHOOSE x \in S : TRUE
                 IN  10 * Weight[a] * signals[a].num + F[S \ {a}]
    IN  [num |-> den * F[discrete] + 100 * 100 * signals["price_momentum"].num,
         den |-> den]

\* the weighted sum of the six signals, as a rational in units of 0.0001:
\* the first five signals are tenths, so each weighs 10 * weight * num
CompositeScore(signals) ==
    LET den == signals["price_momentum"].den
        discrete == Aspects \ {"price_momentum"}
        F[S \in SUBSET discrete] ==
            IF S = {} THEN 0
            ELSE LET a == CHOOSE x \in S : TRUE
                 IN  10 * Weight[a] * signals[a].num + F[S \ {a}]
    IN  [num |-> den * F[discrete]
                   + 100 * Weight["price_momentum"] * signals["price_momentum"].num,
         den |-> den]

\* floor of num / den for den > 0
FloorDiv(num, den) == IF num >= 0 THEN num \div den ELSE -((-num + den - 1) \div den)

\* the nearest integer to num / den for den > 0, an exact half going to
\* the even one
RoundRatio(num, den) ==
    LET lower == FloorDiv(num, den)
        twice == 2 * (num - lower * den)
    IN  IF twice < den THEN lower
        ELSE IF twice > den THEN lower + 1
        ELSE IF lower % 2 = 0 THEN lower ELSE lower + 1

\* round(score, 4) in units of 0.0001
Round4(score) == RoundRatio(score.num, score.den)

\* the action, taken from the score before it is rounded
ActionOf(score) ==
    IF score.num >= buy_threshold * score.den THEN "BUY"
    ELSE IF score.num <= sell_threshold * score.den THEN "SELL"
    ELSE "HOLD"

\* analyze_stock on a frame with the Close and Volume columns
analyze_bars(frame) ==
    IF Len(frame.close) < MinBars
    THEN [status |-> "error"]
    ELSE LET signals ==
                [ma_cross       |-> MaCrossSignal(frame.close),
                 rsi            |-> RsiSignal(calculate_rsi(frame)),
                 macd           |-> MacdSignal(calculate_macd(frame)),
                 bb             |-> BbSignal(frame.close),
                 volume         |-> VolumeSignal(frame.close, frame.volume),
                 price_momentum |-> MomentumSignal(frame.close)]
         IN  [status        |-> "ok",
              current_price |-> frame.close[Len(frame.close)],
              rsi           |-> calculate_rsi(frame),
              signals       |-> signals,
              unrounded     |-> CompositeScore(signals),
              score         |-> Round4(CompositeScore(signals)),
              action        |-> ActionOf(CompositeScore(signals))]

(***************************************************************************)
(* screener.determine_buy_method.  max_investment is kept as               *)
(* max_investment * 100 = available_cash * max_per_stock_pct.              *)
(***************************************************************************)
MaxInvestmentX100(available_cash_) == available_cash_ * max_per_stock_pct

\* slip: the per-stock limit is not applied
UnitBranchSharesNoCap(price_, available_cash_) ==
    (available_cash_ \div (price_ * UnitShares)) * UnitShares

\* the unit-share branch: the shares it returns
UnitBranchShares(price_, available_cash_) ==
    LET unit_cost == price_ * UnitShares
        max_units == available_cash_ \div unit_cost
        shares    == max_units * UnitShares
    IN  IF shares * price_ * 100 > MaxInvestmentX100(available_cash_)
        THEN Max((MaxInvestmentX100(available_cash_) \div (unit_cost * 100)) * UnitShares,
                 UnitShares)
        ELSE shares

\* slip: no minimum of one share
SBranchSharesNoMinimum(price_, available_cash_) ==
    LET max_shares == available_cash_ \div price_
    IN  IF max_shares * price_ * 100 > MaxInvestmentX100(available_cash_)
        THEN MaxInvestmentX100(available_cash_) \div (price_ * 100)
        ELSE max_shares

\* slip: a price equal to the cash is taken as not affordable
SBranchSharesStrict(price_, available_cash_) ==
    LET max_shares == available_cash_ \div price_
        capped     == IF max_shares * price_ * 100 > MaxInvestmentX100(available_cash_)
                      THEN MaxInvestmentX100(available_cash_) \div (price_ * 100)
                      ELSE max_shares
    IN  IF price_ < available_cash_ THEN Max(capped, 1) ELSE 0

\* the S-share branch: the max_shares it returns
SBranchShares(price_, available_cash_) ==
    LET max_shares == available_cash_ \div price_
        capped     == IF max_shares * price_ * 100 > MaxInvestmentX100(available_cash_)
                      THEN MaxInvestmentX100(available_cash_) \div (price_ * 100)
                      ELSE max_shares
    IN  IF price_ <= available_cash_ THEN Max(capped, 1) ELSE 0

\* method tags: "NOT_BUYABLE" is the code's "購入不可", "UNIT_100" its
\* "単元株(100株)", "S_SHARE" its "S株(1株〜)"
determine_buy_method(price_, available_cash_) ==
    IF price_ <= 0
    THEN [method |-> "NOT_BUYABLE", shares |-> 0, estimated_cost |-> 0]
    ELSE IF price_ * UnitShares <= available_cash_
    THEN LET shares == UnitBranchShares(price_, available_cash_)
         IN  [method |-> "UNIT_100", shares |-> shares,
              estimated_cost |-> price_ * shares]
    ELSE LET max_shares == SBranchShares(price_, available_cash_)
         IN  [method |-> "S_SHARE", shares |-> max_shares,
              estimated_cost |-> price_ * max_shares]

(***************************************************************************)
(* screener.screen_all_stocks: the pieces of the loop body.                *)
(***************************************************************************)
\* all_stock_data.get(ticker)
NoFrame == [present |-> FALSE, wellformed |-> TRUE, bars |-> 0, close |-> 0, score |-> 0]

Get(data, t) == IF t \in DOMAIN data THEN data[t] ELSE NoFrame

\* df is None or df.empty
NoData(df) == ~df.present \/ df.bars = 0

\* all_results[ticker] = result, with ticker added to the result
StoreResult(results, t, r) ==
    (t :> [ticker |-> t, current_price |-> r.current_price, score |-> r.score,
           action |-> r.action, signals |-> r.signals]) @@ results

\* pnl_pct = (current_price / holding["avg_price"] - 1) * 100 divides by zero
PnlRaises(holding) == holding.avg_price = 0

\* pnl_pct * avg_price, for avg_price > 0 in tenths of a yen
PnlPctTimesAvg(current_price, holding) ==
    (TenthsPerYen * current_price - holding.avg_price) * 100

\* slip: the take-profit comparison is strict
AlertTypeStrictProfit(current_price, holding) ==
    IF PnlPctTimesAvg(current_price, holding) > take_profit_pct * holding.avg_price
    THEN "TAKE_PROFIT"
    ELSE IF PnlPctTimesAvg(current_price, holding) <= -stop_loss_pct * holding.avg_price
    THEN "STOP_LOSS"
    ELSE "NONE"

\* slip: the stop-loss comparison is strict
AlertTypeStrictLoss(current_price, holding) ==
    IF PnlPctTimesAvg(current_price, holding) >= take_profit_pct * holding.avg_price
    THEN "TAKE_PROFIT"
    ELSE IF PnlPctTimesAvg(current_price, holding) < -stop_loss_pct * holding.avg_price
    THEN "STOP_LOSS"
    ELSE "NONE"

\* the if / elif on pnl_pct
AlertType(current_price, holding) ==
    IF PnlPctTimesAvg(current_price, holding) >= take_profit_pct * holding.avg_price
    THEN "TAKE_PROFIT"
    ELSE IF PnlPctTimesAvg(current_price, holding) <= -stop_loss_pct * holding.avg_price
    THEN "STOP_LOSS"
    ELSE "NONE"

\* holdings_alerts.append({**result, "alert_type": ..., "holding": holding})
WithAlert(alerts, t, r, holding) ==
    IF AlertType(r.current_price, holding) = "NONE"
    THEN alerts
    ELSE Append(alerts, [ticker |-> t, current_price |-> r.current_price,
                         score |-> r.score, action |-> r.action,
                         alert_type |-> AlertType(r.current_price, holding),
                         holding |-> holding])

\* slip: a zero score passes
IsBuyCandidateNonNegative(score) == score >= 0

\* if score > 0
IsBuyCandidate(score) == score > 0

\* all_candidates.append({**result, **buy_info})
WithCandidate(cands, t, r, available_cash_) ==
    IF IsBuyCandidate(r.score)
    THEN LET bi == determine_buy_method(r.current_price, available_cash_)
         IN  Append(cands, [ticker |-> t, current_price |-> r.current_price,
                            score |-> r.score, action |-> r.action,
                            method |-> bi.method, shares |-> bi.shares,
                            estimated_cost |-> bi.estimated_cost])
    ELSE cands

\* slip: the exception leaves the loop and the run
ExceptHandlerAbort(idx) == [pc |-> "aborted", i |-> idx]

\* except Exception: log, continue.  The record is the control state after
\* the handler: still in the loop, at the next watchlist entry.
ExceptHandler(idx) == [pc |-> "loop", i |-> idx + 1]

\* slip: an equal score goes in front of the earlier element
SortsBeforeStrict(a, c) == a.score > c.score

\* sort(key=score, reverse=True): a placed before c when it is not smaller;
\* the sort is stable, so an equal score keeps the earlier element first
SortsBefore(a, c) == a.score >= c.score

InsertSorted(s, c) ==
    LET k == Cardinality({j \in 1..Len(s) : SortsBefore(s[j], c)})
    IN  SubSeq(s, 1, k) \o <<c>> \o SubSeq(s, k + 1, Len(s))

RECURSIVE SortByScore(_)
SortByScore(s) ==
    IF s = <<>> THEN <<>>
    ELSE InsertSorted(SortByScore(SubSeq(s, 1, Len(s) - 1)), s[Len(s)])

\* slip: truncate first, sort afterwards
TopCandidatesCutFirst(cands) == SortByScore(Take(cands, TopN))

\* all_candidates.sort(...); top_candidates = all_candidates[:10]
TopCandidates(cands) == Take(SortByScore(cands), TopN)

\* the summary dict (without the timestamp)
\* slip: the summary counts the tickers with data as the tickers screened
SummaryScreenedFromResults(watchlist, results, top, alerts, available_cash_, holdings_) ==
    [total_screened |-> Cardinality(DOMAIN results),
     data_available |-> Cardinality(DOMAIN results),
     top_candidates |-> Len(top),
     holdings_alerts |-> Len(alerts),
     available_cash |-> available_cash_,
     current_positions |-> Cardinality(DOMAIN holdings_)]

Summary(watchlist, results, top, alerts, available_cash_, holdings_) ==
    [total_screened |-> Len(watchlist),
     data_available |-> Cardinality(DOMAIN results),
     top_candidates |-> Len(top),
     holdings_alerts |-> Len(alerts),
     available_cash |-> available_cash_,
     current_positions |-> Cardinality(DOMAIN holdings_)]

(***************************************************************************)
(* Initial states of a screening run: the stored portfolio and the batch   *)
(* the fetcher returns.                                                    *)
(***************************************************************************)
Frame(bars, close, score) ==
    [present |-> TRUE, wellformed |-> TRUE, bars |-> bars, close |-> close, score |-> score]

\* a frame without the Close column
Malformed == [present |-> TRUE, wellformed |-> FALSE, bars |-> 30, close |-> 100, score |-> 5000]

EmptyFrame == Frame(0, 0, 0)

ShortFrame == Frame(3, 105, 5000)

Holding(avg_price) == [shares |-> 100, avg_price |-> avg_price]

\* One ticker of a short watchlist: its frame and whether and at what
\* average cost it is held.  An unheld ticker closes at 100; a holding
\* bought at 100 closes at -3%, -2%, +4% or +5%.  An average cost of 0 is
\* what record_buy stores, rounded to one decimal, for buys below 0.05 yen.
RichCases ==
    {[df |-> d, held |-> FALSE, avg_price |-> 0] :
        d \in {NoFrame, EmptyFrame, ShortFrame, Malformed}
              \cup {Frame(30, 100, sc) : sc \in {-2000, 0, 5000, 8000}}}
    \cup {[df |-> d, held |-> TRUE, avg_price |-> 100 * TenthsPerYen] :
        d \in {ShortFrame} \cup {Frame(30, c, 5000) : c \in {97, 98, 104, 105}}}
    \cup {[df |-> Frame(30, 100, 5000), held |-> TRUE, avg_price |-> 0]}

\* One ticker of a long watchlist: analysable with a positive score, and
\* held (at its current price) or not.
WideCase(score, held) ==
    [df |-> Frame(30, 100, score), held |-> held, avg_price |-> IF held THEN 100 * TenthsPerYen ELSE 0]

RECURSIVE HoldingsCost(_)
HoldingsCost(h) ==
    IF DOMAIN h = {} THEN 0
    ELSE LET t == CHOOSE u \in DOMAIN h : TRUE
         IN  (h[t].shares * h[t].avg_price) \div TenthsPerYen
             + HoldingsCost([u \in DOMAIN h \ {t} |-> h[u]])

HoldingsOf(cases) ==
    [t \in {u \in DOMAIN cases : cases[u].held} |-> Holding(cases[t].avg_price)]

\* the trade record record_buy appends
BuyTrade(t, price_, shares) ==
    [type |-> "BUY", ticker |-> t, price |-> price_, shares |-> shares,
     total |-> price_ * shares]

\* the trades that left the holdings of the cases: one buy per held ticker
RECURSIVE TradesOf(_, _)
TradesOf(cases, n) ==
    IF n = 0 THEN <<>>
    ELSE IF cases[n].held
         THEN Append(TradesOf(cases, n - 1),
                     BuyTrade(n, cases[n].avg_price \div TenthsPerYen,
                              Holding(cases[n].avg_price).shares))
         ELSE TradesOf(cases, n - 1)

(***************************************************************************)
(* portfolio.py: the portfolio file and its readers.  The file is a record *)
(* whose exists field tells whether PORTFOLIO_FILE is on disk; the data    *)
(* the functions work on has the four fields the ledger uses.              *)
(***************************************************************************)
NoPortfolioFile ==
    [exists |-> FALSE, current_cash |-> 0, trades |-> <<>>, holdings |-> <<>>,
     total_realized_pnl |-> 0]

\* _save_portfolio: the file holding the data
save_portfolio(data) ==
    [exists |-> TRUE, current_cash |-> data.current_cash, trades |-> data.trades,
     holdings |-> data.holdings, total_realized_pnl |-> data.total_realized_pnl]

\* the initial data _load_portfolio returns when there is no file
InitialData ==
    [current_cash |-> INITIAL_CAPITAL, trades |-> <<>>, holdings |-> <<>>,
     total_realized_pnl |-> 0]

StoredData(file) ==
    [current_cash |-> file.current_cash, trades |-> file.trades,
     holdings |-> file.holdings, total_realized_pnl |-> file.total_realized_pnl]

\* slip: loading writes the initial data when there is no file
load_portfolio_creating(file) ==
    [data |-> IF file.exists THEN StoredData(file) ELSE InitialData,
     file |-> IF file.exists THEN file ELSE save_portfolio(InitialData)]

\* _load_portfolio: the data it returns and the file it leaves
load_portfolio(file) ==
    [data |-> IF file.exists THEN StoredData(file) ELSE InitialData,
     file |-> file]

get_available_cash(file) == load_portfolio(file).data.current_cash

get_holdings(file) == load_portfolio(file).data.holdings

\* the file after the two reads at the start of a screening run
AfterReads(file) == load_portfolio(load_portfolio(file).file).file

(***************************************************************************)
(* portfolio.py: record_buy and record_sell, each a load, a change of the  *)
(* loaded data and a save.  Prices and cash are whole yen; avg_price and   *)
(* the realized P&L are in tenths of a yen.  The result is the error the   *)
(* call returns ("none" when it returns the summary, "raise" when an       *)
(* exception leaves it) and the file it leaves.                            *)
(***************************************************************************)
\* the function f with f[t] = v
WithEntry(f, t, v) == [u \in DOMAIN f \cup {t} |-> IF u = t THEN v ELSE f[u]]

\* del f[t]
WithoutEntry(f, t) == [u \in DOMAIN f \ {t} |-> f[u]]

\* slip: the trade entry records no realized P&L
SellTradeWithoutPnl(t, price_, shares, realized_pnl) ==
    [type |-> "SELL", ticker |-> t, price |-> price_, shares |-> shares,
     total |-> price_ * shares, realized_pnl |-> 0]

SellTrade(t, price_, shares, realized_pnl) ==
    [type |-> "SELL", ticker |-> t, price |-> price_, shares |-> shares,
     total |-> price_ * shares, realized_pnl |-> realized_pnl]

\* slip: a purchase is recorded whatever it costs
record_buy_unchecked(file, t, price_, shares) ==
    LET data       == load_portfolio(file).data
        total_cost == price_ * shares
        holding    == IF t \in DOMAIN data.holdings
                      THEN [shares    |-> data.holdings[t].shares + shares,
                            avg_price |-> data.holdings[t].avg_price]
                      ELSE [shares |-> shares, avg_price |-> TenthsPerYen * price_]
    IN  [error |-> "none",
         file  |-> save_portfolio(
            [current_cash       |-> data.current_cash - total_cost,
             trades             |-> Append(data.trades, BuyTrade(t, price_, shares)),
             holdings           |-> WithEntry(data.holdings, t, holding),
             total_realized_pnl |-> data.total_realized_pnl])]

record_buy(file, t, price_, shares) ==
    LET data       == load_portfolio(file).data
        total_cost == price_ * shares
    IN  IF total_cost > data.current_cash
        THEN [error |-> "insufficient_funds", file |-> file]
        ELSE IF t \in DOMAIN data.holdings
                /\ data.holdings[t].shares + shares = 0
        THEN \* avg_price divides by total_shares = 0
             [error |-> "raise", file |-> file]
        ELSE LET holding ==
                    IF t \in DOMAIN data.holdings
                    THEN LET existing     == data.holdings[t]
                             total_shares == existing.shares + shares
                         IN  [shares    |-> total_shares,
                              avg_price |->
                                  RoundRatio(existing.avg_price * existing.shares
                                               + TenthsPerYen * price_ * shares,
                                             total_shares)]
                    ELSE [shares |-> shares, avg_price |-> TenthsPerYen * price_]
             IN  [error |-> "none",
                  file  |-> save_portfolio(
                     [current_cash       |-> data.current_cash - total_cost,
                      trades             |-> Append(data.trades,
                                                    BuyTrade(t, price_, shares)),
                      holdings           |-> WithEntry(data.holdings, t, holding),
                      total_realized_pnl |-> data.total_realized_pnl])]

\* slip: any sale removes the holding
record_sell_dropping(file, t, price_, shares) ==
    LET data == load_portfolio(file).data
    IN  IF t \notin DOMAIN data.holdings
        THEN [error |-> "not_held", file |-> file]
        ELSE IF shares > data.holdings[t].shares
        THEN [error |-> "not_enough_shares", file |-> file]
        ELSE LET holding      == data.holdings[t]
                 realized_pnl == (TenthsPerYen * price_ - holding.avg_price) * shares
             IN  [error |-> "none",
                  file  |-> save_portfolio(
                     [current_cash       |-> data.current_cash + price_ * shares,
                      trades             |-> Append(data.trades,
                                               SellTrade(t, price_, shares, realized_pnl)),
                      holdings           |-> WithoutEntry(data.holdings, t),
                      total_realized_pnl |-> data.total_realized_pnl + realized_pnl])]

record_sell(file, t, price_, shares) ==
    LET data == load_portfolio(file).data
    IN  IF t \notin DOMAIN data.holdings
        THEN [error |-> "not_held", file |-> file]
        ELSE IF shares > data.holdings[t].shares
        THEN [error |-> "not_enough_shares", file |-> file]
        ELSE LET holding          == data.holdings[t]
                 total_revenue    == price_ * shares
                 realized_pnl     == (TenthsPerYen * price_ - holding.avg_price) * shares
                 remaining_shares == holding.shares - shares
             IN  [error |-> "none",
                  file  |-> save_portfolio(
                     [current_cash       |-> data.current_cash + total_revenue,
                      trades             |-> Append(data.trades,
                                               SellTrade(t, price_, shares, realized_pnl)),
                      holdings           |->
                          IF remaining_shares > 0
                          THEN WithEntry(data.holdings, t,
                                         [holding EXCEPT !.shares = remaining_shares])
                          ELSE WithoutEntry(data.holdings, t),
                      total_realized_pnl |-> data.total_realized_pnl + realized_pnl])]

NoBuyInfo == [method |-> "NONE", shares |-> 0, estimated_cost |-> 0]

\* no frame under analysis, and no analysis yet
NoBars == [close |-> <<>>, volume |-> <<>>, rsi |-> NaN, hist |-> <<0, 0>>]

NoAnalysis == [status |-> "none"]

\* no call recorded yet
NoTradeResult == [trade_type |-> "NONE", ticker |-> 0, price |-> 0, shares |-> 0,
                  error |-> "none"]

\* a process that is in neither record_buy nor record_sell
NoCall == [trade_type |-> "NONE", ticker |-> 0, price |-> 0, shares |-> 0]

Recorders == {1, 2}

NoRecorders ==
    [r \in Recorders |-> [stage |-> "idle", call |-> NoCall, loaded |-> NoPortfolioFile]]

\* no Discord processing under way and no processed_messages.json
NoChat == [trades |-> <<>>, stored_ids |-> {}, processed_ids |-> {}, k |-> 1,
           stage |-> "idle", runs |-> 0, recorded |-> <<>>]

NoSummary == Summary(<<>>, <<>>, <<>>, <<>>, 0, <<>>)

EmptyRun == [all_candidates |-> <<>>, holdings_alerts |-> <<>>,
             all_results |-> <<>>, top_candidates |-> <<>>]

\* the state in which a run finds the program: at is where the run stands
\* and c what it knows of the Discord channel
InitRunAt(cases, stored, at, c) ==
    /\ WATCHLIST = [k \in DOMAIN cases |-> k]
    /\ portfolio =
          IF stored
          THEN save_portfolio(
                  [current_cash |-> INITIAL_CAPITAL - HoldingsCost(HoldingsOf(cases)),
                   trades |-> TradesOf(cases, Len(WATCHLIST)),
                   holdings |-> HoldingsOf(cases),
                   total_realized_pnl |-> 0])
          ELSE NoPortfolioFile
    /\ all_stock_data = [t \in {u \in DOMAIN cases : cases[u].df.present} |-> cases[t].df]
    /\ pc = at
    /\ holdings = <<>>
    /\ available_cash = 0
    /\ i = 1
    /\ all_candidates = <<>>
    /\ holdings_alerts = <<>>
    /\ all_results = <<>>
    /\ top_candidates = <<>>
    /\ summary = NoSummary
    /\ nodata_run = EmptyRun
    /\ price = 0
    /\ cash = 0
    /\ buy_info = NoBuyInfo
    /\ ohlcv = NoBars
    /\ analysis = NoAnalysis
    /\ trade_result = NoTradeResult
    /\ recorders = NoRecorders
    /\ chat = c

\* a run of screen_all_stocks alone
InitRun(cases, stored) == InitRunAt(cases, stored, "start", NoChat)

Init ==
    \/ \E cases \in [1..NumTickers -> RichCases] : InitRun(cases, TRUE)
    \/ \E held \in {{}, {1, 2}} :
         \E scores \in [1..WideTickers -> {5000, 8000}] :
            InitRun([t \in 1..WideTickers |-> WideCase(scores[t], t \in held)], TRUE)
    \* before the first trade there is no portfolio file, hence no holding
    \/ \E cases \in [1..NumTickers -> {c \in RichCases :
                                          ~c.held /\ c.df \in {NoFrame, Frame(30, 100, 8000)}}] :
            InitRun(cases, FALSE)

(***************************************************************************)
(* screen_all_stocks, step by step.                                        *)
(***************************************************************************)
ticker == WATCHLIST[i]

InLoop == pc = "loop" /\ i <= Len(WATCHLIST)

\* the run in which the tickers that raise have no data takes the same step
NoDataRunStep(results, alerts, cands) ==
    nodata_run' = [nodata_run EXCEPT !.all_results = results,
                                     !.holdings_alerts = alerts,
                                     !.all_candidates = cands]

\* holdings = get_holdings(); available_cash = get_available_cash()
StartRun ==
    /\ pc = "start"
    /\ holdings' = get_holdings(portfolio)
    /\ available_cash' = get_available_cash(portfolio)
    /\ portfolio' = AfterReads(portfolio)
    /\ pc' = "loop"
    /\ UNCHANGED <<WATCHLIST, all_stock_data, i, all_candidates,
                   holdings_alerts, all_results, top_candidates, summary, nodata_run>>
    /\ UNCHANGED sizeVars
    /\ UNCHANGED analysisVars
    /\ UNCHANGED ledgerVars

\* if df is None or df.empty: continue
SkipNoData ==
    /\ InLoop
    /\ NoData(Get(all_stock_data, ticker))
    /\ i' = i + 1
    /\ UNCHANGED <<WATCHLIST, portfolio, all_stock_data, pc, holdings, available_cash,
                   all_candidates, holdings_alerts, all_results, top_candidates,
                   summary, nodata_run>>
    /\ UNCHANGED sizeVars
    /\ UNCHANGED analysisVars
    /\ UNCHANGED ledgerVars

\* if "error" in result: continue
SkipAnalysisError ==
    /\ InLoop
    /\ ~NoData(Get(all_stock_data, ticker))
    /\ analyze_stock(Get(all_stock_data, ticker)).status = "error"
    /\ i' = i + 1
    /\ UNCHANGED <<WATCHLIST, portfolio, all_stock_data, pc, holdings, available_cash,
                   all_candidates, holdings_alerts, all_results, top_candidates,
                   summary, nodata_run>>
    /\ UNCHANGED sizeVars
    /\ UNCHANGED analysisVars
    /\ UNCHANGED ledgerVars

\* an exception in the try block: raised by analyze_stock, before the result
\* is stored, or by the division in pnl_pct, after it is stored
ScreeningError ==
    /\ InLoop
    /\ ~NoData(Get(all_stock_data, ticker))
    /\ LET r == analyze_stock(Get(all_stock_data, ticker))
       IN  \/ /\ r.status = "raise"
              /\ UNCHANGED all_results
           \/ /\ r.status = "ok"
              /\ ticker \in DOMAIN holdings
              /\ PnlRaises(holdings[ticker])
              /\ all_results' = StoreResult(all_results, ticker, r)
    /\ pc' = ExceptHandler(i).pc
    /\ i' = ExceptHandler(i).i
    /\ UNCHANGED <<WATCHLIST, portfolio, all_stock_data, holdings, available_cash,
                   all_candidates, holdings_alerts, top_candidates, summary, nodata_run>>
    /\ UNCHANGED sizeVars
    /\ UNCHANGED analysisVars
    /\ UNCHANGED ledgerVars

\* if ticker in holdings: take-profit / stop-loss alert
HoldingAlert ==
    /\ InLoop
    /\ ~NoData(Get(all_stock_data, ticker))
    /\ LET r == analyze_stock(Get(all_stock_data, ticker))
       IN  /\ r.status = "ok"
           /\ ticker \in DOMAIN holdings
           /\ ~PnlRaises(holdings[ticker])
           /\ all_results' = StoreResult(all_results, ticker, r)
           /\ holdings_alerts' = WithAlert(holdings_alerts, ticker, r, holdings[ticker])
           /\ NoDataRunStep(StoreResult(nodata_run.all_results, ticker, r),
                            WithAlert(nodata_run.holdings_alerts, ticker, r, holdings[ticker]),
                            nodata_run.all_candidates)
    /\ i' = i + 1
    /\ UNCHANGED <<WATCHLIST, portfolio, all_stock_data, pc, holdings, available_cash,
                   all_candidates, top_candidates, summary>>
    /\ UNCHANGED sizeVars
    /\ UNCHANGED analysisVars
    /\ UNCHANGED ledgerVars

\* else: if score > 0: append a buy candidate
BuyCandidate ==
    /\ InLoop
    /\ ~NoData(Get(all_stock_data, ticker))
    /\ LET r == analyze_stock(Get(all_stock_data, ticker))
       IN  /\ r.status = "ok"
           /\ ticker \notin DOMAIN holdings
           /\ all_results' = StoreResult(all_results, ticker, r)
           /\ all_candidates' = WithCandidate(all_candidates, ticker, r, available_cash)
           /\ NoDataRunStep(StoreResult(nodata_run.all_results, ticker, r),
                            nodata_run.holdings_alerts,
                            WithCandidate(nodata_run.all_candidates, ticker, r, available_cash))
    /\ i' = i + 1
    /\ UNCHANGED <<WATCHLIST, portfolio, all_stock_data, pc, holdings, available_cash,
                   holdings_alerts, top_candidates, summary>>
    /\ UNCHANGED sizeVars
    /\ UNCHANGED analysisVars
    /\ UNCHANGED ledgerVars

\* after the loop: sort, take the top 10, build the summary, return
RankAndReturn ==
    /\ pc = "loop"
    /\ i > Len(WATCHLIST)
    /\ top_candidates' = TopCandidates(all_candidates)
    /\ all_candidates' = SortByScore(all_candidates)
    /\ summary' = Summary(WATCHLIST, all_results, TopCandidates(all_candidates),
                          holdings_alerts, available_cash, holdings)
    /\ nodata_run' = [nodata_run EXCEPT
                        !.all_candidates = SortByScore(nodata_run.all_candidates),
                        !.top_candidates = TopCandidates(nodata_run.all_candidates)]
    /\ pc' = "done"
    /\ UNCHANGED <<WATCHLIST, portfolio, all_stock_data, holdings, available_cash, i,
                   holdings_alerts, all_results>>
    /\ UNCHANGED sizeVars
    /\ UNCHANGED analysisVars
    /\ UNCHANGED ledgerVars

Next ==
    \/ StartRun
    \/ SkipNoData
    \/ SkipAnalysisError
    \/ ScreeningError
    \/ HoldingAlert
    \/ BuyCandidate
    \/ RankAndReturn

Spec == Init /\ [][Next]_vars

(***************************************************************************)
(* determine_buy_method on its own: every price and cash within the bounds.*)
(***************************************************************************)
\* prices of the worked examples: 2,500 yen and 2,000 yen against 220,000 yen
ExamplePrices == {2000, 2500}

SizeInit ==
    /\ price \in (-1..MaxPrice) \cup ExamplePrices
    /\ cash \in (0..MaxCash) \cup {INITIAL_CAPITAL}
    /\ buy_info = NoBuyInfo
    /\ ohlcv = NoBars
    /\ analysis = NoAnalysis
    /\ trade_result = NoTradeResult
    /\ recorders = NoRecorders
    /\ chat = NoChat
    /\ pc = "size"
    /\ WATCHLIST = <<>>
    /\ portfolio = NoPortfolioFile
    /\ all_stock_data = <<>>
    /\ holdings = <<>>
    /\ available_cash = 0
    /\ i = 1
    /\ all_candidates = <<>>
    /\ holdings_alerts = <<>>
    /\ all_results = <<>>
    /\ top_candidates = <<>>
    /\ summary = NoSummary
    /\ nodata_run = EmptyRun

DetermineBuyMethod ==
    /\ pc = "size"
    /\ buy_info' = determine_buy_method(price, cash)
    /\ pc' = "sized"
    /\ UNCHANGED <<price, cash>>
    /\ UNCHANGED screenVars
    /\ UNCHANGED analysisVars
    /\ UNCHANGED ledgerVars

SizeNext == DetermineBuyMethod

SizeSpec == SizeInit /\ [][SizeNext]_vars

(***************************************************************************)
(* analyze_stock applied to one frame.  The closes start from BasePrice    *)
(* and the last three bars are free; the volume is zero, flat, or flat     *)
(* with a last bar of three times the others.                              *)
(***************************************************************************)
Closes == {BasePrice + 2 * k : k \in -MaxMove..MaxMove}

Bars(n, tail) ==
    [k \in 1..n |-> IF k <= n - Len(tail) THEN BasePrice ELSE tail[k - (n - Len(tail))]]

\* "double": with w the bars in the volume window, w - 2 on every bar and
\* 2 (w - 1) on the last one, which is exactly twice the average
VolumeKinds == {"zero", "flat", "spike", "double"}

Volumes(n, kind) ==
    LET w == IF n < volume_avg_period THEN n ELSE volume_avg_period
    IN  [k \in 1..n |->
            IF kind = "zero" THEN 0
            ELSE IF kind = "double" THEN (IF k = n THEN 2 * (w - 1) ELSE w - 2)
            ELSE IF kind = "spike" /\ k = n THEN 3 ELSE 1]

RsiLevels == {30, 40, 50, 60, 70}

HistPairs == {<<0, 0>>, <<-1, 1>>, <<1, -1>>, <<1, 2>>, <<-1, -2>>, <<2, 1>>}

BarCounts == {MinBars - 1, MinBars, rsi_period, LongBars}

\* thirteen bars on which the short average crosses above the medium one
\* on the last bar, the close is below the middle band, and the last
\* change is +3 on 143
ExampleBars == <<152, 155, 155, 134, 146, 140, 146, 134, 146, 152, 152, 143, 146>>

\* five bars whose last change is exactly +3% and exactly -3%
ThresholdBars == {<<100, 100, 100, 100, 103>>, <<100, 100, 100, 100, 97>>}

CloseSeries ==
    {Bars(n, <<a, b, c>>) : n \in BarCounts, a \in Closes, b \in Closes, c \in Closes}
    \cup {ExampleBars} \cup ThresholdBars

AnalyzeInit ==
    /\ \E close \in CloseSeries :
         LET n == Len(close)
         IN  \E kind \in VolumeKinds :
             \E r \in IF n >= rsi_period /\ AnyGain(close) /\ AnyLoss(close)
                      THEN RsiLevels ELSE {NaN} :
             \E h \in IF Constant(close) THEN {<<0, 0>>} ELSE HistPairs :
                ohlcv = [close |-> close, volume |-> Volumes(n, kind),
                         rsi |-> r, hist |-> h]
    /\ analysis = NoAnalysis
    /\ pc = "analyze"
    /\ WATCHLIST = <<>>
    /\ portfolio = NoPortfolioFile
    /\ all_stock_data = <<>>
    /\ holdings = <<>>
    /\ available_cash = 0
    /\ i = 1
    /\ all_candidates = <<>>
    /\ holdings_alerts = <<>>
    /\ all_results = <<>>
    /\ top_candidates = <<>>
    /\ summary = NoSummary
    /\ nodata_run = EmptyRun
    /\ price = 0
    /\ cash = 0
    /\ buy_info = NoBuyInfo
    /\ trade_result = NoTradeResult
    /\ recorders = NoRecorders
    /\ chat = NoChat

AnalyzeStock ==
    /\ pc = "analyze"
    /\ analysis' = analyze_bars(ohlcv)
    /\ pc' = "analyzed"
    /\ UNCHANGED ohlcv
    /\ UNCHANGED screenVars
    /\ UNCHANGED sizeVars
    /\ UNCHANGED ledgerVars

AnalyzeNext == AnalyzeStock

AnalyzeSpec == AnalyzeInit /\ [][AnalyzeNext]_vars

(***************************************************************************)
(* The ledger: trades recorded one after another, as main.py does for the  *)
(* parsed Discord messages.  parse_trade_message passes a ticker of the    *)
(* watchlist, a price > 0 and a share count from (\d+), which may be 0.    *)
(***************************************************************************)
LedgerTickers == {1, 2}

LedgerPrices == {1000, 2500}

LedgerShares == {0, 1, 100}

LedgerInit ==
    /\ portfolio = NoPortfolioFile
    /\ trade_result = NoTradeResult
    /\ recorders = NoRecorders
    /\ chat = NoChat
    /\ pc = "ledger"
    /\ WATCHLIST = <<>>
    /\ all_stock_data = <<>>
    /\ holdings = <<>>
    /\ available_cash = 0
    /\ i = 1
    /\ all_candidates = <<>>
    /\ holdings_alerts = <<>>
    /\ all_results = <<>>
    /\ top_candidates = <<>>
    /\ summary = NoSummary
    /\ nodata_run = EmptyRun
    /\ price = 0
    /\ cash = 0
    /\ buy_info = NoBuyInfo
    /\ ohlcv = NoBars
    /\ analysis = NoAnalysis

LedgerUnchanged ==
    UNCHANGED <<WATCHLIST, all_stock_data, pc, holdings, available_cash, i,
                all_candidates, holdings_alerts, all_results, top_candidates,
                summary, nodata_run, price, cash, buy_info, ohlcv, analysis,
                recorders, chat>>

RecordBuy ==
    /\ pc = "ledger"
    /\ Len(portfolio.trades) < MaxTrades
    /\ \E t \in LedgerTickers, p \in LedgerPrices, n \in LedgerShares :
          /\ portfolio' = record_buy(portfolio, t, p, n).file
          /\ trade_result' = [trade_type |-> "BUY", ticker |-> t, price |-> p,
                              shares |-> n,
                              error |-> record_buy(portfolio, t, p, n).error]
    /\ LedgerUnchanged

RecordSell ==
    /\ pc = "ledger"
    /\ Len(portfolio.trades) < MaxTrades
    /\ \E t \in LedgerTickers, p \in LedgerPrices, n \in LedgerShares :
          /\ portfolio' = record_sell(portfolio, t, p, n).file
          /\ trade_result' = [trade_type |-> "SELL", ticker |-> t, price |-> p,
                              shares |-> n,
                              error |-> record_sell(portfolio, t, p, n).error]
    /\ LedgerUnchanged

LedgerNext == RecordBuy \/ RecordSell

LedgerSpec == LedgerInit /\ [][LedgerNext]_vars

(***************************************************************************)
(* The same two operations on one share at a time of one more instrument   *)
(* than RISK_PARAMS["max_positions"], from the same fresh portfolio.       *)
(***************************************************************************)
PositionTickers == 1..(max_positions + 1)

PositionPrice == 1000

OpenPosition ==
    /\ pc = "ledger"
    /\ Len(portfolio.trades) < MaxOpened
    /\ \E t \in PositionTickers :
          /\ portfolio' = record_buy(portfolio, t, PositionPrice, 1).file
          /\ trade_result' = [trade_type |-> "BUY", ticker |-> t,
                              price |-> PositionPrice, shares |-> 1,
                              error |-> record_buy(portfolio, t, PositionPrice, 1).error]
    /\ LedgerUnchanged

ClosePosition ==
    /\ pc = "ledger"
    /\ Len(portfolio.trades) < MaxOpened
    /\ \E t \in PositionTickers :
          /\ portfolio' = record_sell(portfolio, t, PositionPrice, 1).file
          /\ trade_result' = [trade_type |-> "SELL", ticker |-> t,
                              price |-> PositionPrice, shares |-> 1,
                              error |-> record_sell(portfolio, t, PositionPrice, 1).error]
    /\ LedgerUnchanged

PositionsNext == OpenPosition \/ ClosePosition

PositionsSpec == LedgerInit /\ [][PositionsNext]_vars

(***************************************************************************)
(* Two processes recording at once (the Discord processing of a run and a  *)
(* "buy" / "sell" command line, say).  record_buy and record_sell read the *)
(* file with _load_portfolio, change the dict they read and write it with  *)
(* _save_portfolio; nothing locks the file, so the read and the write of   *)
(* one call are two steps with the other process's steps between them.     *)
(***************************************************************************)
OverlapShares == {1, 100}

\* _load_portfolio at the start of a call: the process holds what it read
LoadPortfolio(r) ==
    /\ pc = "ledger"
    /\ recorders[r].stage = "idle"
    /\ \E type \in {"BUY", "SELL"}, t \in LedgerTickers, p \in LedgerPrices,
          n \in OverlapShares :
          recorders' = [recorders EXCEPT ![r] =
                           [stage  |-> "loaded",
                            call   |-> [trade_type |-> type, ticker |-> t,
                                        price |-> p, shares |-> n],
                            loaded |-> load_portfolio(portfolio).file]]
    /\ UNCHANGED <<portfolio, trade_result, chat>>
    /\ UNCHANGED <<WATCHLIST, all_stock_data, pc, holdings, available_cash, i,
                   all_candidates, holdings_alerts, all_results, top_candidates,
                   summary, nodata_run, price, cash, buy_info, ohlcv, analysis>>

\* the rest of the call, on what was read: an error return, or the change
\* and _save_portfolio, which replaces the whole file
ModifyAndSave(r) ==
    /\ pc = "ledger"
    /\ recorders[r].stage = "loaded"
    /\ LET call   == recorders[r].call
           result == IF call.trade_type = "BUY"
                     THEN record_buy(recorders[r].loaded, call.ticker,
                                     call.price, call.shares)
                     ELSE record_sell(recorders[r].loaded, call.ticker,
                                      call.price, call.shares)
       IN  /\ portfolio' = IF result.error = "none" THEN result.file ELSE portfolio
           /\ trade_result' = [trade_type |-> call.trade_type, ticker |-> call.ticker,
                               price |-> call.price, shares |-> call.shares,
                               error |-> result.error]
           /\ recorders' = [recorders EXCEPT ![r].stage =
                               IF result.error = "none" THEN "saved" ELSE "failed"]
    /\ UNCHANGED chat
    /\ UNCHANGED <<WATCHLIST, all_stock_data, pc, holdings, available_cash, i,
                   all_candidates, holdings_alerts, all_results, top_candidates,
                   summary, nodata_run, price, cash, buy_info, ohlcv, analysis>>

OverlapNext == \E r \in Recorders : LoadPortfolio(r) \/ ModifyAndSave(r)

OverlapSpec == LedgerInit /\ [][OverlapNext]_vars

(***************************************************************************)
(* main.py: process_discord_chat_trades.  chat.trades is what              *)
(* process_discord_trades returns, the parsed trade messages of the last   *)
(* ten minutes with their message ids, the same list for every run inside  *)
(* those ten minutes; chat.stored_ids is processed_messages.json,          *)
(* chat.processed_ids the set the run works on, chat.k the position of the *)
(* loop, and chat.recorded counts, per message, the calls of record_buy or *)
(* record_sell for it that stored a trade.                                 *)
(***************************************************************************)
ChatPrice == 100

ChatShares == {0, 1}

ChatMessages ==
    [trade_type : {"BUY", "SELL"}, ticker : LedgerTickers, price : {ChatPrice},
     shares : ChatShares]

\* the fetched list: message k has message_id k
ChatBatches == [1..MaxMessages -> ChatMessages]

\* processed_ids = _load_processed_messages(); trades = process_discord_trades(...)
BeginChat(c) ==
    [c EXCEPT !.processed_ids = c.stored_ids, !.k = 1, !.stage = "loop",
              !.runs = c.runs + 1]

\* record_buy or record_sell, as the trade type says
record(file, trade) ==
    IF trade.trade_type = "BUY"
    THEN record_buy(file, trade.ticker, trade.price, trade.shares)
    ELSE record_sell(file, trade.ticker, trade.price, trade.shares)

InChatLoop == chat.stage = "loop" /\ chat.k <= Len(chat.trades)

ChatUnchanged ==
    UNCHANGED <<WATCHLIST, all_stock_data, holdings, available_cash, i,
                all_candidates, holdings_alerts, all_results, top_candidates,
                summary, nodata_run, price, cash, buy_info, ohlcv, analysis,
                trade_result, recorders>>

ChatInit ==
    /\ portfolio = NoPortfolioFile
    /\ \E batch \in ChatBatches :
          chat = [NoChat EXCEPT !.trades = batch,
                                !.recorded = [m \in 1..MaxMessages |-> 0]]
    /\ pc = "ledger"
    /\ trade_result = NoTradeResult
    /\ recorders = NoRecorders
    /\ WATCHLIST = <<>>
    /\ all_stock_data = <<>>
    /\ holdings = <<>>
    /\ available_cash = 0
    /\ i = 1
    /\ all_candidates = <<>>
    /\ holdings_alerts = <<>>
    /\ all_results = <<>>
    /\ top_candidates = <<>>
    /\ summary = NoSummary
    /\ nodata_run = EmptyRun
    /\ price = 0
    /\ cash = 0
    /\ buy_info = NoBuyInfo
    /\ ohlcv = NoBars
    /\ analysis = NoAnalysis

\* one more run of process_discord_chat_trades
StartChat ==
    /\ pc = "ledger"
    /\ chat.stage # "loop"
    /\ chat.runs < MaxRuns
    /\ chat' = BeginChat(chat)
    /\ UNCHANGED <<portfolio, pc>>
    /\ ChatUnchanged

\* if msg_id in processed_ids: continue
SkipProcessed ==
    /\ InChatLoop
    /\ chat.k \in chat.processed_ids
    /\ chat' = [chat EXCEPT !.k = chat.k + 1]
    /\ UNCHANGED <<portfolio, pc>>
    /\ ChatUnchanged

\* the call returns: without "error" the id joins processed_ids, with it
\* the error is logged; either way the loop goes on
RecordChatTrade ==
    /\ InChatLoop
    /\ chat.k \notin chat.processed_ids
    /\ LET result == record(portfolio, chat.trades[chat.k])
       IN  /\ result.error # "raise"
           /\ portfolio' = result.file
           /\ chat' = IF result.error = "none"
                      THEN [chat EXCEPT !.k = chat.k + 1,
                                        !.processed_ids = chat.processed_ids \cup {chat.k},
                                        !.recorded[chat.k] = chat.recorded[chat.k] + 1]
                      ELSE [chat EXCEPT !.k = chat.k + 1]
    /\ UNCHANGED pc
    /\ ChatUnchanged

\* the call raises (the division by total_shares = 0 in record_buy): the
\* exception leaves the loop and the function, before
\* _save_processed_messages
ChatTradeRaises ==
    /\ InChatLoop
    /\ chat.k \notin chat.processed_ids
    /\ record(portfolio, chat.trades[chat.k]).error = "raise"
    /\ chat' = [chat EXCEPT !.stage = "aborted"]
    /\ UNCHANGED <<portfolio, pc>>
    /\ ChatUnchanged

\* after the loop: _save_processed_messages(processed_ids)
FinishChat ==
    /\ chat.stage = "loop"
    /\ chat.k > Len(chat.trades)
    /\ chat' = [chat EXCEPT !.stored_ids = chat.processed_ids, !.stage = "done"]
    /\ UNCHANGED <<portfolio, pc>>
    /\ ChatUnchanged

ChatNext ==
    \/ StartChat
    \/ SkipProcessed
    \/ RecordChatTrade
    \/ ChatTradeRaises
    \/ FinishChat

ChatSpec == ChatInit /\ [][ChatNext]_vars

(***************************************************************************)
(* main.py: run_analysis, a first run with the Discord channel configured: *)
(* process_discord_chat_trades, then get_portfolio_summary (a read), then  *)
(* screen_all_stocks.  There is no processed_messages.json yet, so no      *)
(* message is skipped.  An exception of the Discord processing goes to the *)
(* except clause, which reports it and raises it again.                    *)
(***************************************************************************)
\* what the first, the second and the further tickers of the watchlist
\* can be in such a run
RunCasesOf(t) ==
    IF t = 1
    THEN {[df |-> Frame(30, 100, 8000), held |-> FALSE, avg_price |-> 0],
          [df |-> Frame(30, 104, 5000), held |-> TRUE, avg_price |-> 100 * TenthsPerYen],
          [df |-> NoFrame, held |-> FALSE, avg_price |-> 0]}
    ELSE IF t = 2
    THEN {[df |-> Frame(30, 100, 5000), held |-> FALSE, avg_price |-> 0],
          [df |-> ShortFrame, held |-> FALSE, avg_price |-> 0],
          [df |-> Malformed, held |-> FALSE, avg_price |-> 0]}
    ELSE {[df |-> Frame(30, 100, 5000), held |-> TRUE, avg_price |-> 0],
          [df |-> Frame(30, 100, 0), held |-> FALSE, avg_price |-> 0]}

RunCases == {cases \in [1..NumTickers -> RichCases] :
                \A t \in 1..NumTickers : cases[t] \in RunCasesOf(t)}

\* the purchases, of no share or of one, and the sales of one share
RunMessages == {m \in ChatMessages : m.trade_type = "BUY" \/ m.shares = 1}

RunBatches == [1..(MaxMessages - 1) -> RunMessages]

RunInit ==
    \E cases \in RunCases, batch \in RunBatches :
        InitRunAt(cases, TRUE, "run",
                  [NoChat EXCEPT !.trades = batch,
                                 !.recorded = [m \in DOMAIN batch |-> 0]])

\* slip: the screening does not wait for the end of the Discord processing
ChatStarted(c) == c.stage \in {"loop", "done"}

\* process_discord_chat_trades has returned
ChatFinished(c) == c.stage = "done"

\* try: process_discord_chat_trades()
RunAnalysis ==
    /\ pc = "run"
    /\ pc' = "chat"
    /\ chat' = BeginChat(chat)
    /\ UNCHANGED portfolio
    /\ ChatUnchanged

\* portfolio_summary = get_portfolio_summary(); result = screen_all_stocks()
BeginScreening ==
    /\ pc = "chat"
    /\ ChatFinished(chat)
    /\ pc' = "start"
    /\ UNCHANGED <<portfolio, chat>>
    /\ ChatUnchanged

\* except Exception: log, send_error_notification, raise
RunFails ==
    /\ pc = "chat"
    /\ chat.stage = "aborted"
    /\ pc' = "failed"
    /\ UNCHANGED <<portfolio, chat>>
    /\ ChatUnchanged

RunNext ==
    \/ RunAnalysis
    \/ RecordChatTrade
    \/ ChatTradeRaises
    \/ FinishChat
    \/ BeginScreening
    \/ RunFails
    \/ Next

RunSpec == RunInit /\ [][RunNext]_vars

(***************************************************************************)
(* Vocabulary of the properties, stated on the inputs of the run.          *)
(***************************************************************************)
Tickers == Range(WATCHLIST)

Df(t) == Get(all_stock_data, t)

\* the ticker is in the holdings of the stored portfolio
Held(t) == t \in DOMAIN portfolio.holdings

\* the ticker has a series of at least 5 bars that can be analysed
Analysable(t) == Df(t).present /\ Df(t).bars >= 5 /\ Df(t).wellformed

\* the series is missing, empty or shorter than 5 bars
Insufficient(t) == ~Df(t).present \/ Df(t).bars < 5

\* processing the ticker raises an exception
Raises(t) ==
    \/ Df(t).present /\ Df(t).bars >= 5 /\ ~Df(t).wellformed
    \/ Analysable(t) /\ Held(t) /\ portfolio.holdings[t].avg_price = 0

\* the loop has dealt with the ticker (a ticker is its watchlist position)
Processed(t) == pc \in {"loop", "done"} /\ t < i

TickersOf(list) == {list[k].ticker : k \in 1..Len(list)}

AlertsOn(t) == {k \in 1..Len(holdings_alerts) : holdings_alerts[k].ticker = t}

\* percent gain and loss of a holding against its average cost, defined for
\* a positive average cost
GainAtLeast(t, pct) ==
    /\ portfolio.holdings[t].avg_price > 0
    /\ (TenthsPerYen * Df(t).close - portfolio.holdings[t].avg_price) * 100
          >= pct * portfolio.holdings[t].avg_price

LossAtLeast(t, pct) ==
    /\ portfolio.holdings[t].avg_price > 0
    /\ (portfolio.holdings[t].avg_price - TenthsPerYen * Df(t).close) * 100
          >= pct * portfolio.holdings[t].avg_price

\* unheld, analysed, score > 0
Qualifying == {t \in Tickers : ~Held(t) /\ Analysable(t) /\ Df(t).score > 0}

(***************************************************************************)
(* Properties of screen_all_stocks (specification Spec).                   *)
(***************************************************************************)
\* C1: a ticker is in the candidate list (during the run and as returned)
\* only if it is not held and its composite score is strictly positive;
\* held tickers and tickers with score <= 0 are never candidates.
C1_CandidatesUnheldPositive ==
    \A c \in Range(all_candidates) \cup Range(top_candidates) :
        /\ c.ticker \in Tickers
        /\ ~Held(c.ticker)
        /\ Analysable(c.ticker)
        /\ c.score = Df(c.ticker).score
        /\ c.score > 0

C1_Witness ==
    /\ pc = "done"
    /\ top_candidates # <<>>
    /\ \E t \in Tickers : Held(t) /\ Analysable(t) /\ Df(t).score > 0
    /\ \E t \in Tickers : ~Held(t) /\ Analysable(t) /\ Df(t).score = 0

\* C2: the returned candidate list is ordered by score descending and
\* candidates with equal score keep their watchlist order; scores
\* [0.8, -0.2, 0.5] with nothing held give exactly [first, third].
C2_SortedStable ==
    pc = "done" =>
        /\ \A a, b \in 1..Len(top_candidates) :
              a < b =>
                \/ top_candidates[a].score > top_candidates[b].score
                \/ /\ top_candidates[a].score = top_candidates[b].score
                   /\ top_candidates[a].ticker < top_candidates[b].ticker
        /\ ( /\ Len(WATCHLIST) = 3
             /\ DOMAIN portfolio.holdings = {}
             /\ \A t \in 1..3 : Analysable(t)
             /\ Df(1).score = 8000 /\ Df(2).score = -2000 /\ Df(3).score = 5000 )
           => /\ Len(top_candidates) = 2
              /\ top_candidates[1].ticker = 1
              /\ top_candidates[2].ticker = 3

C2_Witness ==
    /\ pc = "done"
    /\ \E a, b, c \in 1..Len(top_candidates) :
          /\ a < b /\ b < c
          /\ top_candidates[a].score > top_candidates[b].score
          /\ top_candidates[a].ticker > top_candidates[b].ticker
          /\ top_candidates[b].score = top_candidates[c].score

C4_TakeProfitOnce ==
    pc = "done" =>
        \A t \in Tickers :
            (Held(t) /\ Analysable(t) /\ GainAtLeast(t, 5)) =>
                /\ Cardinality(AlertsOn(t)) = 1
                /\ \A k \in AlertsOn(t) : holdings_alerts[k].alert_type = "TAKE_PROFIT"
                /\ t \notin TickersOf(top_candidates)
                /\ t \notin TickersOf(all_candidates)

C4_Witness ==
    /\ pc = "done"
    /\ \E t \in Tickers :
          /\ Held(t) /\ Analysable(t) /\ Df(t).score > 0
          /\ Df(t).close = 105 /\ portfolio.holdings[t].avg_price = 1000
          /\ AlertsOn(t) # {}

\* C5: for a held ticker with data, STOP_LOSS is raised exactly when the
\* loss is >= 3%, TAKE_PROFIT exactly when the gain is >= 5%, nothing in
\* between; no ticker gets two alerts and no unheld ticker gets one.
C5_AlertExactly ==
    /\ \A k \in 1..Len(holdings_alerts) : Held(holdings_alerts[k].ticker)
    /\ \A t \in Tickers : Cardinality(AlertsOn(t)) <= 1
    /\ \A t \in Tickers :
          (Processed(t) /\ Held(t) /\ Analysable(t)
                /\ portfolio.holdings[t].avg_price > 0) =>
             /\ (\E k \in AlertsOn(t) : holdings_alerts[k].alert_type = "STOP_LOSS")
                   <=> LossAtLeast(t, 3)
             /\ (\E k \in AlertsOn(t) : holdings_alerts[k].alert_type = "TAKE_PROFIT")
                   <=> GainAtLeast(t, 5)
             /\ (~LossAtLeast(t, 3) /\ ~GainAtLeast(t, 5)) => AlertsOn(t) = {}

C5_Witness ==
    /\ pc = "done"
    /\ \E t, u \in Tickers :
          /\ Held(t) /\ Analysable(t) /\ Df(t).close = 97
          /\ portfolio.holdings[t].avg_price = 1000
          /\ \E k \in AlertsOn(t) : holdings_alerts[k].alert_type = "STOP_LOSS"
          /\ Held(u) /\ Analysable(u) /\ Df(u).close = 104
          /\ portfolio.holdings[u].avg_price = 1000
          /\ AlertsOn(u) = {}

\* C6: when processing a ticker raises, the run is not aborted, and it
\* returns the candidate list and the alert list of the run in which that
\* ticker had no data.
C6_FailureIsolated ==
    /\ pc # "aborted"
    /\ pc = "done" =>
          /\ top_candidates = nodata_run.top_candidates
          /\ holdings_alerts = nodata_run.holdings_alerts

C6_Witness ==
    /\ pc = "done"
    /\ \E t \in Tickers :
          /\ Raises(t)
          /\ \E u \in TickersOf(top_candidates) : u > t
          /\ \E k \in 1..Len(holdings_alerts) : holdings_alerts[k].ticker < t

\* C7: a ticker whose processing raised is in neither the candidate list nor
\* the alert list nor all_results.
C7_RaisedNotInResults ==
    \A t \in Tickers :
        (Processed(t) /\ Raises(t)) =>
            /\ t \notin TickersOf(all_candidates)
            /\ t \notin TickersOf(top_candidates)
            /\ AlertsOn(t) = {}
            /\ t \notin DOMAIN all_results

\* C8: a ticker whose series is missing, empty or shorter than 5 bars gets
\* an error from analyze_stock with no signal computed, is left out of
\* candidates, alerts and all_results, and the rest of the watchlist is
\* still processed.
C8_InsufficientDataSkipped ==
    /\ \A t \in Tickers :
          Insufficient(t) =>
             /\ analyze_stock(Df(t)).status = "error"
             /\ analyze_stock(Df(t)).signals = {}
             /\ t \notin TickersOf(all_candidates)
             /\ t \notin TickersOf(top_candidates)
             /\ AlertsOn(t) = {}
             /\ t \notin DOMAIN all_results
    /\ \A t \in Tickers : (Processed(t) /\ Analysable(t)) => t \in DOMAIN all_results
    /\ pc = "done" => i = Len(WATCHLIST) + 1

C8_Witness ==
    /\ pc = "done"
    /\ \E t, u, v \in Tickers :
          /\ ~Df(t).present
          /\ Df(u).present /\ Df(u).bars = 3 /\ Held(u)
          /\ v > t /\ v > u /\ v \in DOMAIN all_results

(***************************************************************************)
(* Properties of determine_buy_method (specification SizeSpec).            *)
(***************************************************************************)
\* the cost of n shares is within the available cash and within
\* max_per_stock_pct (40%) of it
WithinCash(n) == n * price <= cash

WithinCap(n) == n * price * 100 <= cash * 40

LotMode == pc = "sized" /\ price > 0 /\ price * 100 <= cash

\* n is the largest multiple of 100 whose cost is within cash and cap
LargestLotWithinBoth(n) ==
    /\ n % 100 = 0
    /\ WithinCash(n) /\ WithinCap(n)
    /\ ~(WithinCash(n + 100) /\ WithinCap(n + 100))

C10_CostWithinCap ==
    (pc = "sized" /\ price > 0 /\ cash >= 0) =>
        buy_info.estimated_cost * 100 <= cash * 40

Min(a, b) == IF a <= b THEN a ELSE b

SingleShareMode == pc = "sized" /\ price > 0 /\ price <= cash /\ cash < price * 100

\* C11: in single-share mode (price <= cash < price x 100) the quantity is
\* max(1, min(floor(cash / price), floor(cap / price))) with cap = 40% of the
\* cash, its cost is within the cash and the result is tagged as the
\* single-share method; cash 220,000 and price 2,500 give 35 shares.
C11_SingleShareQuantity ==
    /\ SingleShareMode =>
          /\ buy_info.method = "S_SHARE"
          /\ buy_info.shares =
                Max(1, Min(cash \div price, (cash * 40) \div (price * 100)))
          /\ buy_info.estimated_cost = buy_info.shares * price
          /\ buy_info.estimated_cost <= cash
    /\ (pc = "sized" /\ price = 2500 /\ cash = 220000) => buy_info.shares = 35

C11_Witness ==
    /\ SingleShareMode
    /\ price = 2500 /\ cash = 220000
    /\ buy_info.shares = 35
    /\ buy_info.estimated_cost = 87500

\* C12: the result is 0 shares at cost 0 exactly when price <= 0 or
\* price > cash; in every other case it is at least 1 share.
C12_ZeroExactlyWhenInfeasible ==
    pc = "sized" =>
        IF price <= 0 \/ price > cash
        THEN buy_info.shares = 0 /\ buy_info.estimated_cost = 0
        ELSE buy_info.shares >= 1 /\ buy_info.estimated_cost >= price

C12_Witness ==
    /\ pc = "sized"
    /\ price > 0 /\ price > cash /\ cash > 0
    /\ buy_info.shares = 0

\* C18: a screening run never changes the portfolio: no step of it changes
\* the stored cash, holdings, trades or realized P&L (or creates the file).
C18_PortfolioUnchanged == [][portfolio' = portfolio]_vars

\* a run has finished over a stored portfolio with a holding, and over a
\* missing portfolio file that is still missing
C18_Witness ==
    /\ pc = "done"
    /\ \/ portfolio.exists /\ DOMAIN portfolio.holdings # {} /\ portfolio.trades # <<>>
          /\ holdings = portfolio.holdings
       \/ ~portfolio.exists /\ available_cash = INITIAL_CAPITAL


\* C19: the summary of a finished run is consistent: total_screened is the
\* watchlist size, top_candidates and holdings_alerts are the lengths of the
\* returned lists, current_positions is the number of holdings,
\* data_available <= total_screened and candidates + alerts <= data_available.
C19_SummaryConsistent ==
    pc = "done" =>
        /\ summary.total_screened = Len(WATCHLIST)
        /\ summary.top_candidates = Len(top_candidates)
        /\ summary.holdings_alerts = Len(holdings_alerts)
        /\ summary.current_positions = Cardinality(DOMAIN get_holdings(portfolio))
        /\ summary.data_available <= summary.total_screened
        /\ summary.top_candidates + summary.holdings_alerts <= summary.data_available

C19_Witness ==
    /\ pc = "done"
    /\ summary.data_available < summary.total_screened
    /\ summary.top_candidates >= 1
    /\ summary.holdings_alerts >= 1
    /\ summary.current_positions >= 2

Analysed == pc = "analyzed" /\ analysis.status = "ok"

SumWeights ==
    weight_ma_cross + weight_rsi + weight_macd + weight_bb + weight_volume
    + weight_price_momentum

\* C13: for every series of at least 5 bars the composite score lies in
\* [-S, +S] with S the sum of the absolute weights, which is [-1, 1] for the
\* configured weights; this holds for the score before and after rounding.
C13_ScoreWithinUnit ==
    Analysed =>
        /\ SumWeights = 100
        /\ analysis.score <= 100 * SumWeights
        /\ analysis.score >= -100 * SumWeights
        /\ analysis.unrounded.num <= 100 * SumWeights * analysis.unrounded.den
        /\ analysis.unrounded.num >= -100 * SumWeights * analysis.unrounded.den

C13_Witness ==
    /\ Analysed
    /\ Len(ohlcv.close) >= MinBars
    /\ analysis.score >= 7000
    /\ analysis.action = "BUY"

\* C14: the action is the classification of the reported score (rounded to
\* four decimals): BUY iff score >= buy_threshold, SELL iff score <=
\* sell_threshold, HOLD otherwise.
C14_ActionOfReportedScore ==
    Analysed => analysis.action = Classify(analysis.score)

\* C15: a series whose close is the same on every bar has ma_cross 0,
\* macd 0 and price_momentum 0.
C15_ConstantSeriesNeutral ==
    (Analysed /\ Constant(ohlcv.close)) =>
        /\ analysis.signals["ma_cross"].num = 0
        /\ analysis.signals["macd"].num = 0
        /\ analysis.signals["price_momentum"].num = 0

InUnit(sig) == sig.den > 0 /\ -sig.den <= sig.num /\ sig.num <= sig.den

\* C16: every analysis result has a signal for each of the six aspects,
\* each in [-1, 1]; an aspect undefined for lack of data (the RSI before
\* rsi_period bars, the volume ratio over a zero average) is 0.
C16_SixSignalsInUnit ==
    Analysed =>
        /\ DOMAIN analysis.signals = Aspects
        /\ \A a \in Aspects : InUnit(analysis.signals[a])
        /\ Len(ohlcv.close) < rsi_period => analysis.signals["rsi"].num = 0
        /\ SumSeq(ohlcv.volume) = 0 => analysis.signals["volume"].num = 0

C16_Witness ==
    /\ Analysed
    /\ Len(ohlcv.close) < rsi_period
    /\ analysis.signals["rsi"].num = 0
    /\ analysis.signals["macd"].num = 10
    /\ analysis.signals["price_momentum"].den # 10
    /\ analysis.signals["price_momentum"].num > 0

\* C17: when the smoothed average loss is zero (no bar closes below the
\* bar before it, including no change at all) the oscillator is 100 and
\* its signal is -1.
C17_ZeroLossIsHundred ==
    (Analysed /\ Len(ohlcv.close) >= rsi_period /\ ~AnyLoss(ohlcv.close)) =>
        /\ analysis.rsi = 100
        /\ analysis.signals["rsi"].num = -10

\* C20: after any sequence of record_buy and record_sell calls every entry
\* of the holdings has a share count strictly greater than 0.
C20_HoldingsPositive ==
    \A t \in DOMAIN portfolio.holdings : portfolio.holdings[t].shares > 0

\* the inputs of the volume rule, read off the frame
VolumeWindow == Rolling(ohlcv.volume, volume_avg_period, Len(ohlcv.volume))

\* current volume >= 2.0 x average volume, the average being positive
VolumeSpike ==
    /\ SumSeq(VolumeWindow) > 0
    /\ ohlcv.volume[Len(ohlcv.volume)] * Len(VolumeWindow)
          >= volume_spike_multiplier * SumSeq(VolumeWindow)

LastClose == ohlcv.close[Len(ohlcv.close)]

PreviousClose == ohlcv.close[Len(ohlcv.close) - 1]

\* C21: the volume signal is non-zero only when the current volume is at
\* least 2.0 x the average volume; on a spike it is +0.8 when the last close
\* is above the previous one and -0.8 when it is below; without a spike
\* (including an average volume of 0) it is 0.
C21_VolumeSignal ==
    Analysed =>
        /\ analysis.signals["volume"].num # 0 => VolumeSpike
        /\ (VolumeSpike /\ LastClose > PreviousClose) =>
              analysis.signals["volume"] = Tenths(8)
        /\ (VolumeSpike /\ LastClose < PreviousClose) =>
              analysis.signals["volume"] = Tenths(-8)
        /\ ~VolumeSpike => analysis.signals["volume"].num = 0

\* a volume of exactly twice the average on a rising close
C21_Witness ==
    /\ Analysed
    /\ ohlcv.volume[Len(ohlcv.volume)] * Len(VolumeWindow) = 2 * SumSeq(VolumeWindow)
    /\ SumSeq(VolumeWindow) > 0
    /\ LastClose > PreviousClose
    /\ analysis.signals["volume"] = Tenths(8)

\* the four averages of the cross rule, read off the frame
PrevShort == calculate_sma(ohlcv.close, sma_short, Len(ohlcv.close) - 1)

PrevMedium == calculate_sma(ohlcv.close, sma_medium, Len(ohlcv.close) - 1)

CurrShort == calculate_sma(ohlcv.close, sma_short, Len(ohlcv.close))

CurrMedium == calculate_sma(ohlcv.close, sma_medium, Len(ohlcv.close))

GoldenCross == MeanLessEq(PrevShort, PrevMedium) /\ MeanLess(CurrMedium, CurrShort)

DeadCross == MeanLessEq(PrevMedium, PrevShort) /\ MeanLess(CurrShort, CurrMedium)

\* C22: the moving-average signal is +1 exactly on a golden cross (prev
\* short <= prev medium and curr short > curr medium), -1 exactly on a dead
\* cross (prev short >= prev medium and curr short < curr medium), otherwise
\* +0.5 when the short average is above the medium one and -0.5 when it is
\* below; it is positive iff the current short average is strictly above
\* the current medium one.
C22_MaCrossSignal ==
    Analysed =>
        /\ analysis.signals["ma_cross"] = Tenths(10) <=> GoldenCross
        /\ analysis.signals["ma_cross"] = Tenths(-10) <=> DeadCross
        /\ (~GoldenCross /\ ~DeadCross /\ MeanLess(CurrMedium, CurrShort)) =>
              analysis.signals["ma_cross"] = Tenths(5)
        /\ (~GoldenCross /\ ~DeadCross /\ MeanLess(CurrShort, CurrMedium)) =>
              analysis.signals["ma_cross"] = Tenths(-5)
        /\ analysis.signals["ma_cross"].num > 0 <=> MeanLess(CurrMedium, CurrShort)

\* a golden cross from equal averages
C22_Witness ==
    /\ Analysed
    /\ MeanLessEq(PrevShort, PrevMedium) /\ MeanLessEq(PrevMedium, PrevShort)
    /\ MeanLess(CurrMedium, CurrShort)
    /\ analysis.signals["ma_cross"] = Tenths(10)

\* comparison of two signals
SigLessEq(a, b) == a.num * b.den <= b.num * a.den

\* the percent change from q to p is at most the one from q2 to p2
ChangeLessEq(q, p, q2, p2) == (p - q) * q2 <= (p2 - q2) * q

\* what holds of the momentum signal whichever way the threshold itself
\* goes: the linear value strictly within it, monotone in the price change,
\* of the sign of the change, and of magnitude at most 0.7
MomentumShape ==
    LET change == LastClose - PreviousClose
        sig    == analysis.signals["price_momentum"]
    IN  /\ (100 * change < price_change_threshold * PreviousClose
            /\ 100 * change > -price_change_threshold * PreviousClose) =>
               sig.num * price_change_threshold * PreviousClose = 50 * change * sig.den
        /\ \A q \in Closes, p \in Closes :
              /\ ChangeLessEq(PreviousClose, LastClose, q, p) =>
                    SigLessEq(sig, MomentumSignal(<<q, p>>))
              /\ ChangeLessEq(q, p, PreviousClose, LastClose) =>
                    SigLessEq(MomentumSignal(<<q, p>>), sig)
        /\ (sig.num > 0 <=> change > 0) /\ (sig.num < 0 <=> change < 0)
        /\ SigLessEq(sig, Tenths(7)) /\ SigLessEq(Tenths(-7), sig)

\* C23 as stated: the momentum signal is +0.7 / -0.7 when the percent change
\* is beyond +3.0% / -3.0% and change / 3.0 x 0.5 within the threshold, the
\* threshold itself included; it is monotone, of the sign of the change and
\* at most 0.7 in magnitude.
C23_SaturatesBeyondThreshold ==
    Analysed =>
        LET change == LastClose - PreviousClose
            sig    == analysis.signals["price_momentum"]
        IN  /\ 100 * change > price_change_threshold * PreviousClose => sig = Tenths(7)
            /\ 100 * change < -price_change_threshold * PreviousClose => sig = Tenths(-7)
            /\ (100 * change = price_change_threshold * PreviousClose
                \/ 100 * change = -price_change_threshold * PreviousClose) =>
                   sig.num * price_change_threshold * PreviousClose
                       = 50 * change * sig.den
            /\ MomentumShape

\* C23, amended: the momentum signal is +0.7 / -0.7 when the percent change
\* is at or beyond +3.0% / -3.0% and change / 3.0 x 0.5 strictly within the
\* threshold; it is monotone, of the sign of the change and at most 0.7 in
\* magnitude.
C23_SaturatesFromThreshold ==
    Analysed =>
        LET change == LastClose - PreviousClose
            sig    == analysis.signals["price_momentum"]
        IN  /\ 100 * change >= price_change_threshold * PreviousClose => sig = Tenths(7)
            /\ 100 * change <= -price_change_threshold * PreviousClose => sig = Tenths(-7)
            /\ MomentumShape

\* a change of exactly +3%, saturated
C23_Witness ==
    /\ Analysed
    /\ 100 * (LastClose - PreviousClose) = price_change_threshold * PreviousClose
    /\ analysis.signals["price_momentum"] = Tenths(7)

\* C24: after any sequence of record_buy and record_sell calls the number
\* of instruments held at once never exceeds max_positions (3).
C24_AtMostMaxPositions ==
    Cardinality(DOMAIN get_holdings(portfolio)) <= max_positions

\* the call of the step just taken
CallIs(trade_type) == trade_result'.trade_type = trade_type

\* C25: a record_buy whose total cost exceeds the current cash returns the
\* insufficient-funds error and leaves the stored portfolio unchanged; so,
\* over any sequence of calls with positive prices, the available cash is
\* never negative.
C25_BuyWithinCash ==
    /\ [](get_available_cash(portfolio) >= 0)
    /\ [][(CallIs("BUY")
           /\ trade_result'.price * trade_result'.shares
                 > get_available_cash(portfolio)) =>
             /\ trade_result'.error = "insufficient_funds"
             /\ portfolio' = portfolio]_vars

\* a purchase of 100 shares refused for its cost
C25_Witness ==
    /\ trade_result.trade_type = "BUY"
    /\ trade_result.error = "insufficient_funds"
    /\ trade_result.shares > 0
    /\ trade_result.price * trade_result.shares > get_available_cash(portfolio)

\* C26: a record_sell of an instrument that is not held, or of more shares
\* than are held, returns an error and leaves the portfolio unchanged; a
\* successful sale of fewer shares than held keeps the holding with its
\* average cost unchanged and its share count reduced by the shares sold; a
\* sale of exactly all shares removes the holding.
C26_SellRule ==
    [][CallIs("SELL") =>
         LET held == get_holdings(portfolio)
             t    == trade_result'.ticker
             n    == trade_result'.shares
         IN  IF t \notin DOMAIN held \/ n > held[t].shares
             THEN /\ trade_result'.error # "none"
                  /\ portfolio' = portfolio
             ELSE /\ trade_result'.error = "none"
                  /\ n < held[t].shares =>
                        /\ t \in DOMAIN get_holdings(portfolio')
                        /\ get_holdings(portfolio')[t].avg_price = held[t].avg_price
                        /\ get_holdings(portfolio')[t].shares = held[t].shares - n
                  /\ n = held[t].shares => t \notin DOMAIN get_holdings(portfolio')
                  /\ \A u \in DOMAIN held \ {t} :
                        /\ u \in DOMAIN get_holdings(portfolio')
                        /\ get_holdings(portfolio')[u] = held[u]]_vars

\* one share sold out of a holding of a hundred
C26_Witness ==
    /\ trade_result.trade_type = "SELL"
    /\ trade_result.error = "none"
    /\ trade_result.shares = 1
    /\ trade_result.ticker \in DOMAIN get_holdings(portfolio)
    /\ get_holdings(portfolio)[trade_result.ticker].shares = 99

RECURSIVE SumTotals(_, _)
\* the sum of the totals of the trades of one type
SumTotals(trades, type) ==
    IF trades = <<>> THEN 0
    ELSE (IF Head(trades).type = type THEN Head(trades).total ELSE 0)
         + SumTotals(Tail(trades), type)

RECURSIVE SumRealized(_)
\* the sum of the realized P&L of the sales
SumRealized(trades) ==
    IF trades = <<>> THEN 0
    ELSE (IF Head(trades).type = "SELL" THEN Head(trades).realized_pnl ELSE 0)
         + SumRealized(Tail(trades))

Saved == {r \in Recorders : recorders[r].stage = "saved"}

\* C28: when two recording operations (each a load, a change and a save)
\* overlap in time, the stored portfolio still contains the trades of both:
\* no interleaving loses an update.
C28_NoLostUpdate ==
    Len(load_portfolio(portfolio).data.trades) = Cardinality(Saved)

\* C29: across any sequence of runs of process_discord_chat_trades a trade
\* message is recorded at most once.
C29_RecordedAtMostOnce ==
    \A m \in DOMAIN chat.recorded : chat.recorded[m] <= 1

\* the screening has been entered / has taken its snapshot
Screening == pc \in {"start", "loop", "done"}

Snapshot == pc \in {"loop", "done"}

\* a holding that a chat message of this run bought or added to
ChatBought(t) ==
    /\ t \in DOMAIN get_holdings(portfolio)
    /\ \E m \in DOMAIN chat.recorded :
          /\ chat.recorded[m] >= 1
          /\ chat.trades[m].trade_type = "BUY"
          /\ chat.trades[m].ticker = t

\* C30: in run_analysis every Discord chat trade of the run is recorded
\* before the screening takes its snapshot of holdings and cash, and
\* nothing changes the portfolio from then to the end of the screening; so
\* an instrument bought through chat in this run is held for this run's
\* screening and is not a buy candidate.
C30_ChatBeforeSnapshot ==
    /\ [](Screening => chat.stage = "done" /\ chat.k > Len(chat.trades))
    /\ [][Screening => portfolio' = portfolio]_vars
    /\ [](Snapshot =>
             /\ holdings = get_holdings(portfolio)
             /\ available_cash = get_available_cash(portfolio)
             /\ \A t \in Tickers :
                   ChatBought(t) =>
                       /\ t \in DOMAIN holdings
                       /\ t \notin TickersOf(all_candidates) \cup TickersOf(top_candidates))

\* a ticker with a positive score, bought by a chat message of this run
\* only, analysed and not a candidate
C30_Witness ==
    /\ pc = "done"
    /\ \E t \in Tickers :
          /\ ChatBought(t)
          /\ holdings[t].shares = 1
          /\ Df(t).score > 0
          /\ t \in DOMAIN all_results
          /\ t \notin TickersOf(top_candidates)

====
